---------------------------- MODULE Spec2Model ----------------------------
(***************************************************************************)
(* A model of the streaming scanner of src/src/lib.rs (jig/scanner-rust).  *)
(*                                                                         *)
(* The Scanner struct is the record `sc`; its Byte Source (`src: R`) is    *)
(* the field sc.src, a byte sequence handed out in reads of at most        *)
(* `chunk` bytes.  Bytes are the integers 0..255, scalars (Rust `char`)    *)
(* are their code points, tokens are integers (negative for the named      *)
(* categories, the code point otherwise), as in the source.                *)
(* Every operation of the scanner is an operator from a scanner record to  *)
(* a scanner record (and a returned value), computed the way the code      *)
(* computes it; the actions apply the public operations.                   *)
(***************************************************************************)
EXTENDS Integers, Sequences, FiniteSets, TLC

VARIABLES sc,    \* the Scanner struct (fields of lib.rs:111-145), with its source
          ret,   \* the last public operation and the value it returned
          hist   \* the tokens scan() returned, up to its first EOF, with text and positions

vars == <<sc, ret, hist>>

---------------------------------------------------------------------------
(* Bounds of the model *)

\* Capacity of the source buffer.  The source sets 1024 (lib.rs:24, "at least
\* 4"); the model scales it down so that refills and the capacity boundary are
\* reached by short sources.
BUF_LEN == 5

\* Longest source, counted in the items (scalars or stray bytes) it is built of.
MaxLen == 3

---------------------------------------------------------------------------
(* Scalars and bytes *)

\* Code points of the scalars the source names.
Ord == [ nul |-> 0, tab |-> 9, nl |-> 10, cr |-> 13, sp |-> 32, bang |-> 33,
         quote |-> 34, hash |-> 35, dollar |-> 36, star |-> 42, plus |-> 43,
         minus |-> 45, dot |-> 46, slash |-> 47, d0 |-> 48, d9 |-> 57,
         colon |-> 58, semi |-> 59, lt |-> 60, eq |-> 61, gt |-> 62,
         quest |-> 63, at |-> 64, A |-> 65, F |-> 70, U |-> 85, Z |-> 90,
         bslash |-> 92, under |-> 95, a |-> 97, b |-> 98, e |-> 101,
         f |-> 102, n |-> 110, o |-> 111, p |-> 112, r |-> 114, t |-> 116,
         u |-> 117, v |-> 118, x |-> 120, z |-> 122, lbrace |-> 123,
         tilde |-> 126, not |-> 172, bom |-> 65279, repl |-> 65533,
         eofch |-> 65535 ]

\* Token tags, lib.rs:63-71.
EOF == -1
IDENT == -2
INT == -3
FLOAT == -4
STRING_TOK == -5
KEYWORD == -6
RAW_STRING == -7
COMMENT == -8
SKIP_COMMENT == -9

\* Mode bits, lib.rs:74-81: a mode is the set of the bit positions that are set.
SCAN_IDENTS == {-IDENT}
SCAN_INTS == {-INT}
SCAN_FLOATS == {-FLOAT}
SCAN_STRINGS == {-STRING_TOK}
SCAN_KEYWORDS == {-KEYWORD}
SCAN_RAW_STRINGS == {-RAW_STRING}
SCAN_COMMENTS == {-COMMENT}
SKIP_COMMENTS == {-SKIP_COMMENT}

\* A preset of identifiers and strings alone.
IdentsAndStrings == SCAN_IDENTS \cup SCAN_STRINGS

\* lib.rs:84 (SCAN_INTS is not part of it).
LISP_TOKENS == SCAN_IDENTS \cup SCAN_FLOATS \cup SCAN_STRINGS \cup SCAN_KEYWORDS
               \cup SCAN_RAW_STRINGS \cup SCAN_COMMENTS \cup SKIP_COMMENTS

\* lib.rs:87: the whitespace bit set, as the set of the scalars whose bit is set.
LISP_WHITESPACE == {Ord.tab, Ord.nl, Ord.cr, Ord.sp}

\* mode & flags != 0
Has(mode, flags) == (mode \cap flags) # {}

Min(x, y) == IF x < y THEN x ELSE y

---------------------------------------------------------------------------
(* UTF-8, as std::str::from_utf8 and String::from_utf8_lossy treat it *)

IsCont(b) == b >= 128 /\ b <= 191

\* The range the second byte of a sequence led by b0 must lie in.
SecondOk(b0, b1) ==
    IF b0 = 224 THEN b1 >= 160 /\ b1 <= 191
    ELSE IF b0 = 237 THEN b1 >= 128 /\ b1 <= 159
    ELSE IF b0 = 240 THEN b1 >= 144 /\ b1 <= 191
    ELSE IF b0 = 244 THEN b1 >= 128 /\ b1 <= 143
    ELSE IsCont(b1)

\* Length the lead byte announces: 1..4, or 0 for a byte that leads nothing.
LeadLen(b0) ==
    IF b0 < 128 THEN 1
    ELSE IF b0 >= 194 /\ b0 <= 223 THEN 2
    ELSE IF b0 >= 224 /\ b0 <= 239 THEN 3
    ELSE IF b0 >= 240 /\ b0 <= 244 THEN 4
    ELSE 0

\* Number of bytes of bs, from index i (1-based), that are a prefix of a
\* well-formed sequence: LeadLen when the whole sequence is there and valid.
GoodPrefix(bs, i) ==
    LET n == Len(bs)
        l == LeadLen(bs[i])
    IN  IF l = 0 THEN 0
        ELSE IF l = 1 THEN 1
        ELSE IF i + 1 > n \/ ~SecondOk(bs[i], bs[i + 1]) THEN 1
        ELSE IF l = 2 THEN 2
        ELSE IF i + 2 > n \/ ~IsCont(bs[i + 2]) THEN 2
        ELSE IF l = 3 THEN 3
        ELSE IF i + 3 > n \/ ~IsCont(bs[i + 3]) THEN 3
        ELSE 4

\* Width of the well-formed scalar at bs[i], 0 when there is none.
SeqWidth(bs, i) ==
    IF LeadLen(bs[i]) # 0 /\ GoodPrefix(bs, i) = LeadLen(bs[i])
    THEN LeadLen(bs[i]) ELSE 0

\* The scalar encoded at bs[i] (SeqWidth(bs, i) > 0).
DecodeAt(bs, i) ==
    LET w == SeqWidth(bs, i)
    IN  IF w = 1 THEN bs[i]
        ELSE IF w = 2 THEN (bs[i] - 192) * 64 + (bs[i + 1] - 128)
        ELSE IF w = 3 THEN (bs[i] - 224) * 4096 + (bs[i + 1] - 128) * 64
                           + (bs[i + 2] - 128)
        ELSE (bs[i] - 240) * 262144 + (bs[i + 1] - 128) * 4096
             + (bs[i + 2] - 128) * 64 + (bs[i + 3] - 128)

RECURSIVE ValidFrom(_, _)
ValidFrom(bs, i) ==
    IF i > Len(bs) THEN TRUE
    ELSE LET w == SeqWidth(bs, i)
         IN  w > 0 /\ ValidFrom(bs, i + w)

\* std::str::from_utf8(bs).is_ok(): the whole slice is well-formed.
from_utf8_ok(bs) == ValidFrom(bs, 1)

\* char::len_utf8
len_utf8(c) == IF c < 128 THEN 1 ELSE IF c < 2048 THEN 2
               ELSE IF c < 65536 THEN 3 ELSE 4

\* The UTF-8 encoding of scalar c.
Encode(c) ==
    IF c < 128 THEN <<c>>
    ELSE IF c < 2048 THEN <<192 + (c \div 64), 128 + (c % 64)>>
    ELSE IF c < 65536 THEN <<224 + (c \div 4096), 128 + ((c \div 64) % 64),
                             128 + (c % 64)>>
    ELSE <<240 + (c \div 262144), 128 + ((c \div 4096) % 64),
           128 + ((c \div 64) % 64), 128 + (c % 64)>>

RECURSIVE LossyFrom(_, _)
LossyFrom(bs, i) ==
    IF i > Len(bs) THEN <<>>
    ELSE LET w == SeqWidth(bs, i)
             k == GoodPrefix(bs, i)
         IN  IF w > 0 THEN SubSeq(bs, i, i + w - 1) \o LossyFrom(bs, i + w)
             ELSE Encode(Ord.repl) \o LossyFrom(bs, i + (IF k = 0 THEN 1 ELSE k))

\* String::from_utf8_lossy(bs), as the bytes of the resulting String: every
\* maximal ill-formed part becomes one U+FFFD.
from_utf8_lossy(bs) == LossyFrom(bs, 1)

---------------------------------------------------------------------------
(* The Byte Source *)

\* A source whose read() reports an error once it has handed out `fail`
\* bytes (never when fail is -1): the bytes it holds, how many it has handed
\* out, and the most bytes one read returns.
FailingSource(data, chunk, fail) ==
    [data |-> data, off |-> 0, chunk |-> chunk, fail |-> fail]

\* A source that reports no error.
Source(data, chunk) == FailingSource(data, chunk, -1)

\* src.read(..) returns Err(_).
ReadFails(src) == src.fail >= 0 /\ src.off >= src.fail

\* Number of bytes src.read(&mut buf[..space]) returns: 0 at exhaustion, and
\* none with an error.
ReadLen(src, space) ==
    IF ReadFails(src) THEN 0
    ELSE Min(Min(src.chunk, space),
             (IF src.fail >= 0 THEN src.fail ELSE Len(src.data)) - src.off)

---------------------------------------------------------------------------
(* The Scanner *)

\* Scanner::init.  The last five fields are not fields of the struct; they
\* record what the calls did: dec the scalars next() returned (end-of-stream
\* left out), eaten the number of source bytes those scalars stood for, look
\* the source offset at which the scalar returned last starts, tok_off the
\* value of look when scan() last marked a token start, and hung that a loop
\* of the call in progress cannot end.
init(src) ==
    [ src |-> src,
      src_buf |-> [k \in 0..BUF_LEN |-> IF k = 0 THEN 128 ELSE 0],
      src_pos |-> 0,
      src_end |-> 0,
      src_buf_offset |-> 0,
      line |-> 1,
      column |-> 0,
      last_line_len |-> 0,
      last_char_len |-> 0,
      tok_buf |-> <<>>,
      tok_pos |-> -1,
      tok_end |-> 0,
      ch |-> -2,
      error_count |-> 0,
      mode |-> LISP_TOKENS,
      whitespace |-> LISP_WHITESPACE,
      is_ident_rune |-> "None",
      position |-> [offset |-> 0, line |-> 0, column |-> 0],
      dec |-> <<>>,
      eaten |-> 0,
      look |-> 0,
      tok_off |-> 0,
      hung |-> FALSE ]

\* &src_buf[from..to] as a sequence.
Slice(buf, from, to) == [k \in 1..(to - from) |-> buf[from + k - 1]]

\* Scanner::error
error(s) ==
    [s EXCEPT !.tok_end = IF s.src_pos >= s.last_char_len
                          THEN s.src_pos - s.last_char_len ELSE 0,
              !.error_count = s.error_count + 1]

\* Scanner::char_to_token
char_to_token(c) == IF c = Ord.eofch THEN EOF ELSE c

\* A scanner and the scalar a call returned.
Res(s, c) == [s |-> s, c |-> c]

\* The refill of next() up to the read: the token text saved, the unread
\* bytes moved to the front, n bytes read behind them.
RefillRead(s, i, n) ==
    [s EXCEPT !.tok_buf = IF s.tok_pos >= 0
                          THEN s.tok_buf \o Slice(s.src_buf, s.tok_pos, s.src_pos)
                          ELSE s.tok_buf,
              !.tok_pos = IF s.tok_pos >= 0 THEN 0 ELSE s.tok_pos,
              !.src_buf = [k \in 0..BUF_LEN |->
                              IF k < i THEN s.src_buf[s.src_pos + k]
                              ELSE IF k < i + n THEN s.src.data[s.src.off + (k - i) + 1]
                              ELSE IF k = i + n THEN 128
                              ELSE s.src_buf[k]],
              !.src_buf_offset = s.src_buf_offset + s.src_pos,
              !.src.off = s.src.off + n,
              !.src_pos = 0,
              !.src_end = i + n]

\* A refill that leaves src_buf_offset where it was.
RefillKeepingOffset(s) ==
    [RefillRead(s, s.src_end - s.src_pos,
                ReadLen(s.src, BUF_LEN - (s.src_end - s.src_pos)))
        EXCEPT !.src_buf_offset = s.src_buf_offset]

\* A refill that forgets how many bytes it discarded before.
RefillFromZero(s) ==
    [RefillRead(s, s.src_end - s.src_pos,
                ReadLen(s.src, BUF_LEN - (s.src_end - s.src_pos)))
        EXCEPT !.src_buf_offset = 0]

\* One pass of the refill in next(): save the token text, move the unread
\* bytes to the front, read.
Refill(s) ==
    RefillRead(s, s.src_end - s.src_pos,
               ReadLen(s.src, BUF_LEN - (s.src_end - s.src_pos)))

\* An end of stream that keeps the width of the scalar before it.
AtEndKeepingWidth(r) ==
    [r EXCEPT !.column = IF r.last_char_len > 0 THEN r.column + 1 ELSE r.column,
              !.look = r.eaten]

\* next() returning the end-of-stream marker.
AtEnd(r) ==
    [r EXCEPT !.column = IF r.last_char_len > 0 THEN r.column + 1 ELSE r.column,
              !.last_char_len = 0,
              !.look = r.eaten]

\* The loop of next() that makes sure a whole scalar is buffered.  Yields the
\* scanner and whether next() returns the end-of-stream marker from inside it.
RECURSIVE FillLoop(_)

\* A loop that reports the error of a read like an error of the source text.
RefilledCounting(s, r) ==
    IF ReadFails(s.src)
    THEN IF r.src_end = 0
         THEN [s |-> AtEnd(error(r)), eof |-> TRUE]
         ELSE [s |-> error(r), eof |-> FALSE]
    ELSE IF r.src.off = s.src.off
    THEN IF r.src_end = 0
         THEN [s |-> AtEnd(r), eof |-> TRUE]
         ELSE [s |-> r, eof |-> FALSE]
    ELSE FillLoop(r)

\* The loop after its read: s before the refill, r after it.  Ok(0) and
\* Err(_) share one arm.
Refilled(s, r) ==
    IF r.src.off = s.src.off \/ ReadFails(s.src)
    THEN IF r.src_end = 0
         THEN [s |-> AtEnd(r), eof |-> TRUE]
         ELSE [s |-> r, eof |-> FALSE]
    ELSE FillLoop(r)

FillLoop(s) ==
    IF s.src_end - s.src_pos >= 4 THEN [s |-> s, eof |-> FALSE]
    ELSE IF s.src_end - s.src_pos > 0
            /\ from_utf8_ok(Slice(s.src_buf, s.src_pos, s.src_end))
    THEN [s |-> s, eof |-> FALSE]
    ELSE Refilled(s, Refill(s))

\* next() leaving through "invalid UTF-8 encoding".
Invalid(s) ==
    Res(error([s EXCEPT !.src_pos = s.src_pos + 1,
                        !.last_char_len = 1,
                        !.column = s.column + 1,
                        !.dec = Append(s.dec, Ord.repl),
                        !.look = s.eaten,
                        !.eaten = s.eaten + 1]),
        Ord.repl)

\* Special situations that let a NUL pass without an error.
SpecialQuiet(s1, c) ==
    IF c = Ord.nl
    THEN Res([s1 EXCEPT !.line = s1.line + 1,
                        !.last_line_len = s1.column,
                        !.column = 0], c)
    ELSE Res(s1, c)

\* "Special situations" of next(): s1 is the scanner advanced over scalar c.
Special(s1, c) ==
    IF c = Ord.nul THEN Res(error(s1), c)
    ELSE IF c = Ord.nl
    THEN Res([s1 EXCEPT !.line = s1.line + 1,
                        !.last_line_len = s1.column,
                        !.column = 0], c)
    ELSE Res(s1, c)

\* next() from "Advance" on: scalar c of `width` bytes was decoded.
Advance(s, c, width) ==
    Special([s EXCEPT !.src_pos = s.src_pos + width,
                      !.last_char_len = width,
                      !.column = s.column + 1,
                      !.dec = Append(s.dec, c),
                      !.look = s.eaten,
                      !.eaten = s.eaten + width], c)

\* next() with the scalar c decoded from the window.
Decoded(t, c) == Advance(t, c, len_utf8(c))

\* "Decode UTF-8" of next(): the bytes from the cursor to the end of the
\* window are validated as a whole.
Decode(t, bytes) ==
    IF t.src_buf[t.src_pos] < 128 THEN Advance(t, t.src_buf[t.src_pos], 1)
    ELSE IF from_utf8_ok(bytes) THEN Decoded(t, DecodeAt(bytes, 1))
    ELSE Invalid(t)

\* next() after its loop.
Filled(f) ==
    IF f.eof THEN Res(f.s, Ord.eofch)
    ELSE Decode(f.s, Slice(f.s.src_buf, f.s.src_pos, f.s.src_end))

\* Scanner::next
next(s) ==
    IF s.src_buf[s.src_pos] < 128
    THEN Advance(s, s.src_buf[s.src_pos], 1)
    ELSE Filled(FillLoop(s))

\* What peek() and next_char() store in ch for the scalar next() returned.
Look(c) == IF c = Ord.eofch THEN EOF ELSE c

\* self.ch = the scalar that next() returned, r.
StoreLook(r) == [r.s EXCEPT !.ch = Look(r.c)]

\* peek() after its first next(): a BOM is skipped.
PeekFirst(n1) == IF n1.c = Ord.bom THEN StoreLook(next(n1.s)) ELSE StoreLook(n1)

\* A peek() that fetches a scalar whether or not one is cached.
PeekAlways(s) == PeekFirst(next(s))

\* Scanner::peek: the scanner with ch filled; peek returns its ch.
peek(s) == IF s.ch = -2 THEN PeekFirst(next(s)) ELSE s

\* next_char() after its peek().
Peeked(s2) ==
    IF s2.ch # EOF THEN [s |-> StoreLook(next(s2)), c |-> s2.ch]
    ELSE [s |-> s2, c |-> s2.ch]

\* Scanner::next_char: the scanner afterwards and the value returned.
next_char(s) == Peeked(peek([s EXCEPT !.tok_pos = -1, !.position.line = 0]))

\* Scanner::pos
pos(s) ==
    [ offset |-> s.src_buf_offset + s.src_pos - s.last_char_len,
      line |-> IF s.column > 0 THEN s.line
               ELSE IF s.last_line_len > 0 THEN s.line - 1 ELSE 1,
      column |-> IF s.column > 0 THEN s.column
                 ELSE IF s.last_line_len > 0 THEN s.last_line_len ELSE 1 ]

\* Scanner::token_text, as the bytes of the String it returns.
token_text(s) ==
    IF s.tok_pos < 0 THEN <<>>
    ELSE LET tok_end == IF s.tok_end < s.tok_pos THEN s.tok_pos ELSE s.tok_end
         IN  from_utf8_lossy(s.tok_buf \o Slice(s.src_buf, s.tok_pos, tok_end))

---------------------------------------------------------------------------
(* Character classes *)

\* char::is_alphabetic, on the scalars the model's sources are built of (ASCII,
\* Latin-1, Latin Extended and the CJK unified ideographs).
is_alphabetic(c) ==
    \/ c >= Ord.A /\ c <= Ord.Z
    \/ c >= Ord.a /\ c <= Ord.z
    \/ c \in {170, 181, 186}
    \/ c >= 192 /\ c <= 705 /\ c \notin {215, 247}
    \/ c >= 19968 /\ c <= 40959

\* char::is_numeric, on the same scalars and on the Arabic-Indic, Devanagari
\* and fullwidth digits.
is_numeric(c) ==
    \/ c >= Ord.d0 /\ c <= Ord.d9
    \/ c \in {178, 179, 185, 188, 189, 190}
    \/ c >= 1632 /\ c <= 1641
    \/ c >= 1776 /\ c <= 1785
    \/ c >= 2406 /\ c <= 2415
    \/ c >= 65296 /\ c <= 65305

\* Scanner::lower
lower(c) == IF c >= Ord.A /\ c <= Ord.Z THEN c + 32 ELSE c

\* Scanner::is_decimal
is_decimal(c) == c >= Ord.d0 /\ c <= Ord.d9

\* Scanner::is_hex
is_hex(c) ==
    \/ is_decimal(c)
    \/ c >= Ord.a /\ c <= Ord.f
    \/ c >= Ord.A /\ c <= Ord.F

\* Scanner::is_ident_rune_default
is_ident_rune_default(c, i) ==
    \/ c \in {Ord.under, Ord.dollar, Ord.star, Ord.plus, Ord.slash, Ord.quest,
              Ord.bang, Ord.lt, Ord.gt, Ord.eq}
    \/ is_alphabetic(c)
    \/ (c = Ord.minus /\ i > 0)
    \/ (is_numeric(c) /\ i > 0)

\* The closures a caller hands to set_is_ident_rune: "any" is |_, _| true,
\* "lower" is |c, _| c.is_ascii_lowercase().
Predicates == {"any", "lower"}

CallPredicate(f, c, i) ==
    IF f = "any" THEN TRUE ELSE c >= Ord.a /\ c <= Ord.z

\* Scanner::is_ident_rune_check.  `ch as i32 != EOF` compares a code point with -1.
is_ident_rune_check(s, c, i) ==
    IF s.is_ident_rune # "None"
    THEN c # EOF /\ CallPredicate(s.is_ident_rune, c, i)
    ELSE is_ident_rune_default(c, i)

---------------------------------------------------------------------------
(* Sub-scanners: each yields Res(scanner, lookahead scalar) *)

\* The while loop of scan_identifier, r the scalar it looks at.  At exhaustion
\* next() returns the end-of-stream marker and leaves the scanner as it is; a
\* predicate that accepts the marker then keeps the loop running for ever: hung.
RECURSIVE IdentLoop(_, _)

\* The loop after its next(): r before, n after.
IdentNext(r, n, i) ==
    IF n.c = Ord.eofch /\ r.c = Ord.eofch /\ n.s = r.s
       /\ is_ident_rune_check(r.s, r.c, i + 1)
    THEN Res([r.s EXCEPT !.hung = TRUE], r.c)
    ELSE IdentLoop(n, i + 1)

IdentLoop(r, i) ==
    IF ~is_ident_rune_check(r.s, r.c, i) THEN r
    ELSE IdentNext(r, next(r.s), i)

\* Scanner::scan_identifier
scan_identifier(s) == IdentLoop(next(s), 1)

\* The loop condition of Scanner::digits.
IsDigitOrSep(c, base) ==
    IF base <= 10 THEN is_decimal(c) \/ c = Ord.under
    ELSE is_hex(c) \/ c = Ord.under

\* Scanner::digits: invalid is a scalar, or -1 for None; digsep is the set of
\* the bits (1: a digit, 2: a separator) that are set.
RECURSIVE digits(_, _, _, _, _)

\* digits on the scalar that a next() returned.
DigitsOf(r, base, invalid, digsep) == digits(r.s, r.c, base, invalid, digsep)

digits(s, c, base, invalid, digsep) ==
    IF IsDigitOrSep(c, base)
    THEN DigitsOf(next(s), base,
                  IF base <= 10 /\ c >= Ord.d0 + base /\ invalid = -1
                  THEN c ELSE invalid,
                  digsep \cup {IF c = Ord.under THEN 2 ELSE 1})
    ELSE [s |-> s, c |-> c, invalid |-> invalid, digsep |-> digsep]

\* The loop of Scanner::invalid_sep over bytes x from index i (0-based), with
\* d the class of the previous byte.
RECURSIVE SepLoop(_, _, _, _)
SepLoop(x, x1, d, i) ==
    IF i >= Len(x) THEN d = Ord.under
    ELSE IF x[i + 1] = Ord.under
    THEN IF d # Ord.d0 THEN TRUE ELSE SepLoop(x, x1, Ord.under, i + 1)
    ELSE IF is_decimal(x[i + 1]) \/ (x1 = Ord.x /\ is_hex(x[i + 1]))
    THEN SepLoop(x, x1, Ord.d0, i + 1)
    ELSE IF d = Ord.under THEN TRUE
    ELSE SepLoop(x, x1, Ord.dot, i + 1)

\* The base prefix that invalid_sep finds at the head of x, a blank for none.
SepPrefix(x) == IF Len(x) >= 2 /\ x[1] = Ord.d0 THEN lower(x[2]) ELSE Ord.sp

\* invalid_sep from its loop on.
SepFrom(x, x1, pre) ==
    SepLoop(x, x1, IF pre THEN Ord.d0 ELSE Ord.dot, IF pre THEN 2 ELSE 0)

\* Scanner::invalid_sep(x).is_some()
invalid_sep(x) ==
    IF Len(x) = 0 THEN FALSE
    ELSE SepFrom(x, SepPrefix(x), SepPrefix(x) \in {Ord.x, Ord.o, Ord.b})

\* A check that accepts every separator.
SepUnchecked(m) == m

\* scan_number's check of the separators, m the scanner with tok_end set.
SepChecked(m) == IF invalid_sep(token_text(m)) THEN error(m) ELSE m

\* The last two error calls of scan_number.
Checked(s, digsep) ==
    IF 2 \in digsep
    THEN SepChecked([s EXCEPT !.tok_end = s.src_pos - s.last_char_len])
    ELSE s

\* A tail that lets an invalid digit pass.
NumberTailUnchecked(s, c, tok, invalid, digsep) ==
    [s |-> Checked(s, digsep), tok |-> tok, c |-> c]

\* The end of scan_number: the invalid digit and the separators are reported.
NumberTail(s, c, tok, invalid, digsep) ==
    [s |-> Checked(IF tok = INT /\ invalid # -1 THEN error(s) ELSE s, digsep),
     tok |-> tok, c |-> c]

\* scan_number's state after the mantissa: the scanner, the lookahead, the
\* prefix and base of the literal, the first invalid digit, the digsep bits,
\* and whether a radix point was seen.
Mantissa(s, c, prefix, base, invalid, digsep, seen_dot) ==
    [s |-> s, c |-> c, prefix |-> prefix, base |-> base, invalid |-> invalid,
     digsep |-> digsep, seen_dot |-> seen_dot]

\* The head of the integer part: the scanner and the lookahead after the
\* prefix, the prefix, the base, and the digsep bits so far.
NumHead(s, c, prefix, base, digsep) ==
    [s |-> s, c |-> c, prefix |-> prefix, base |-> base, digsep |-> digsep]

\* No prefix: r is where the digits start.
Unprefixed(r) == NumHead(r.s, r.c, Ord.nul, 10, {})

\* A prefix that always selects base 8.
PrefixedOctal(r, p) == NumHead(r.s, r.c, p, 8, {})

\* After "0" and a base letter p, r the next().
Prefixed(r, p) ==
    NumHead(r.s, r.c, p, IF p = Ord.x THEN 16 ELSE IF p = Ord.o THEN 8 ELSE 2, {})

\* After a leading "0", r the next().
AfterZero(r) ==
    IF lower(r.c) \in {Ord.x, Ord.o, Ord.b} THEN Prefixed(next(r.s), lower(r.c))
    ELSE NumHead(r.s, r.c, Ord.d0, 8, {1})

\* "Integer part" of scan_number up to its digits.
IntegerHead(s, c) ==
    IF c = Ord.d0 THEN AfterZero(next(s))
    ELSE IF c = Ord.minus THEN Unprefixed(next(s))
    ELSE Unprefixed(Res(s, c))

\* The integer part after the radix point, if there is one: r the lookahead.
AfterPoint(h, d, r, dot) ==
    Mantissa(r.s, r.c, h.prefix, h.base, d.invalid, d.digsep, dot)

PointFollows(d) == d.c = Ord.dot /\ Has(d.s.mode, SCAN_FLOATS)

\* The integer part after its digits d.
IntegerDigits(h, d) ==
    AfterPoint(h, d, IF PointFollows(d) THEN next(d.s) ELSE Res(d.s, d.c),
               PointFollows(d))

\* The integer part from its digits on.
IntegerTail(h) == IntegerDigits(h, digits(h.s, h.c, h.base, -1, h.digsep))

\* "Integer part" of scan_number.
IntegerPart(s, c) == IntegerTail(IntegerHead(s, c))

\* The mantissa m with the fraction digits d.
WithDigits(m, d) ==
    Mantissa(d.s, d.c, m.prefix, m.base, d.invalid, d.digsep, m.seen_dot)

\* "Fractional part" of scan_number.
FractionalPart(m) ==
    IF m.seen_dot
    THEN WithDigits(m, digits(IF m.prefix \in {Ord.o, Ord.b} THEN error(m.s) ELSE m.s,
                              m.c, m.base, m.invalid, m.digsep))
    ELSE m

\* The exponent after its digits d.
ExponentDigits(m, d) ==
    NumberTail(IF 1 \notin d.digsep THEN error(d.s) ELSE d.s, d.c, FLOAT,
               m.invalid, m.digsep \cup d.digsep)

\* The exponent after its letter, r the next().
ExponentSign(m, r) ==
    ExponentDigits(m, DigitsOf(IF r.c = Ord.plus \/ r.c = Ord.minus
                               THEN next(r.s) ELSE r, 10, -1, {}))

\* Every exponent letter goes with every prefix.
BadExponentNever(e, prefix) == FALSE

\* The exponent letter e does not go with the prefix.
BadExponent(e, prefix) ==
    \/ (e = Ord.e /\ prefix # Ord.nul /\ prefix # Ord.d0)
    \/ (e = Ord.p /\ prefix # Ord.x)

\* "Exponent" of scan_number and what follows it: s the scanner, m the
\* mantissa, tok the token so far.
Exponent(s, m, tok) ==
    IF lower(m.c) \in {Ord.e, Ord.p} /\ Has(s.mode, SCAN_FLOATS)
    THEN ExponentSign(m, next(IF BadExponent(lower(m.c), m.prefix)
                              THEN error(s) ELSE s))
    ELSE NumberTail(IF m.prefix = Ord.x /\ tok = FLOAT THEN error(s) ELSE s,
                    m.c, tok, m.invalid, m.digsep)

\* scan_number from the check of the digits on: a literal without digits is
\* the token '-' when negative, an error otherwise.
AfterMantissa(m, negative) ==
    Exponent(IF 1 \notin m.digsep /\ ~negative THEN error(m.s) ELSE m.s, m,
             IF 1 \notin m.digsep /\ negative THEN Ord.minus
             ELSE IF m.seen_dot THEN FLOAT ELSE INT)

\* Scanner::scan_number: yields the scanner, the token and the lookahead.
scan_number(s, c, seen_dot, negative) ==
    AfterMantissa(FractionalPart(IF seen_dot
                                 THEN Mantissa(s, c, Ord.nul, 10, -1, {}, TRUE)
                                 ELSE IntegerPart(s, c)),
                  negative)

\* Scanner::digit_val
digit_val(c) ==
    IF c >= Ord.d0 /\ c <= Ord.d9 THEN c - Ord.d0
    ELSE IF c >= Ord.a /\ c <= Ord.f THEN c - Ord.a + 10
    ELSE IF c >= Ord.A /\ c <= Ord.F THEN c - Ord.A + 10
    ELSE 16

\* Scanner::scan_digits, r the scanner and the scalar it starts at.
RECURSIVE scan_digits(_, _, _)
scan_digits(r, base, n) ==
    IF n > 0 /\ digit_val(r.c) < base THEN scan_digits(next(r.s), base, n - 1)
    ELSE IF n > 0 THEN Res(error(r.s), r.c)
    ELSE r

\* An escape that takes two digits whatever its letter.
EscapeTwoDigits(r, quote) ==
    IF r.c \in {Ord.x, Ord.u, Ord.U} THEN scan_digits(next(r.s), 16, 2)
    ELSE IF r.c = quote THEN next(r.s)
    ELSE Res(error(r.s), r.c)

\* An escape that is content with one octal digit.
EscapeOneOctal(r, quote) ==
    IF r.c >= Ord.d0 /\ r.c <= Ord.d0 + 7 THEN scan_digits(r, 8, 1)
    ELSE IF r.c = quote THEN next(r.s)
    ELSE Res(error(r.s), r.c)

\* scan_escape after its next(), r.
Escape(r, quote) ==
    IF r.c \in {Ord.a, Ord.b, Ord.f, Ord.n, Ord.r, Ord.t, Ord.v, Ord.bslash}
    THEN next(r.s)
    ELSE IF r.c >= Ord.d0 /\ r.c <= Ord.d0 + 7 THEN scan_digits(r, 8, 3)
    ELSE IF r.c \in {Ord.x, Ord.u, Ord.U}
    THEN scan_digits(next(r.s), 16,
                     IF r.c = Ord.x THEN 2 ELSE IF r.c = Ord.u THEN 4 ELSE 8)
    ELSE IF r.c = quote THEN next(r.s)
    ELSE Res(error(r.s), r.c)

\* Scanner::scan_escape
scan_escape(s, quote) == Escape(next(s), quote)

\* The while loop of scan_string, r the scalar it looks at.
RECURSIVE StringLoop(_, _)
StringLoop(r, quote) ==
    IF r.c = quote THEN r.s
    ELSE IF r.c = Ord.nl \/ r.c = Ord.eofch THEN error(r.s)
    ELSE StringLoop(IF r.c = Ord.bslash THEN scan_escape(r.s, quote)
                    ELSE next(r.s), quote)

\* A string scanner that ends at a newline and at the end of the stream
\* without an error.
RECURSIVE StringLoopQuiet(_, _)
StringLoopQuiet(r, quote) ==
    IF r.c \in {quote, Ord.nl, Ord.eofch} THEN r.s
    ELSE StringLoopQuiet(next(r.s), quote)

ScanStringQuiet(s, quote) == StringLoopQuiet(next(s), quote)

\* Scanner::scan_string (the count it returns is not used by its caller).
scan_string(s, quote) == StringLoop(next(s), quote)

RECURSIVE scan_raw_string(_)

\* scan_raw_string after the scalar that follows a closing mark, r.
RawClosing(r) == IF r.c # Ord.not THEN r ELSE scan_raw_string(r.s)

\* scan_raw_string after a scalar of the string, r.
RawScalar(r) ==
    IF r.c = Ord.eofch THEN Res(error(r.s), Ord.nul)
    ELSE IF r.c # Ord.not THEN scan_raw_string(r.s)
    ELSE RawClosing(next(r.s))

\* Scanner::scan_raw_string
scan_raw_string(s) == RawScalar(next(s))

\* The while loop of scan_comment.
RECURSIVE CommentLoop(_)
CommentLoop(n0) ==
    IF n0.c # Ord.nl /\ n0.c # Ord.eofch THEN CommentLoop(next(n0.s)) ELSE n0

\* Scanner::scan_comment
scan_comment(s, c) ==
    IF c # Ord.nl THEN CommentLoop(next(s)) ELSE Res(s, c)

---------------------------------------------------------------------------
(* scan *)

\* A scanner and the token a call returned.
Tok(s, tok) == [s |-> s, tok |-> tok]

\* self.ch = self.char_to_token(c)
SetCh(s, c) == [s EXCEPT !.ch = char_to_token(c)]

\* The scanner of r with the scalar of r as its lookahead.
SetLook(r) == SetCh(r.s, r.c)

\* scan with the lookahead r left behind by a sub-scanner, and its token.
Leave(r, tok) == Tok(SetLook(r), tok)

\* scan with what scan_number yields.
LeaveNumber(r) == Tok(SetLook(r), r.tok)

\* "Skip white space" of scan: yields the scanner, the first scalar that is not
\* white space, and whether scan returns EOF from inside the loop.
RECURSIVE SkipWhitespace(_, _)

\* A loop that does not return at the end of the stream.
SkippedOnward(n1, c) == SkipWhitespace(n1.s, n1.c)

\* The loop after its next(), n1; c is the scalar before it.
Skipped(n1, c) ==
    IF n1.c = Ord.eofch THEN [s |-> n1.s, c |-> c, eof |-> TRUE]
    ELSE SkipWhitespace(n1.s, n1.c)

SkipWhitespace(s, c) ==
    IF c < 64 /\ c \in s.whitespace THEN Skipped(next(s), c)
    ELSE [s |-> s, c |-> c, eof |-> FALSE]

\* "Set token position" of scan.
TokenPosition(s, tok_pos) ==
    [offset |-> s.src_buf_offset + tok_pos,
     line |-> IF s.column > 0 THEN s.line ELSE s.line - 1,
     column |-> IF s.column > 0 THEN s.column ELSE s.last_line_len]

\* "Start collecting token text" and "Set token position" of scan.
MarkToken(s) ==
    [s EXCEPT !.tok_buf = <<>>,
              !.tok_pos = s.src_pos - s.last_char_len,
              !.tok_off = s.look,
              !.position = TokenPosition(s, s.src_pos - s.last_char_len)]

\* scan, first branch: the lookahead starts an identifier.
ScanIdentStart(s, c) ==
    IF Has(s.mode, SCAN_IDENTS) THEN Leave(scan_identifier(s), IDENT)
    ELSE Leave(next(s), c)

\* A digit branch that scans a number whatever the mode.
ScanDecimalUngated(s, c) == LeaveNumber(scan_number(s, c, FALSE, FALSE))

\* scan, second branch: the lookahead is a decimal digit.
ScanDecimal(s, c) ==
    IF Has(s.mode, SCAN_INTS \cup SCAN_FLOATS)
    THEN LeaveNumber(scan_number(s, c, FALSE, FALSE))
    ELSE Leave(next(s), c)

\* The '-' branch after its next(), n1.
AfterMinus(n1, c) ==
    IF is_ident_rune_check(n1.s, n1.c, 0)
    THEN IF Has(n1.s.mode, SCAN_IDENTS)
         THEN Leave(scan_identifier(n1.s), IDENT)
         ELSE Tok(n1.s, c)
    ELSE IF is_decimal(n1.c)
    THEN IF Has(n1.s.mode, SCAN_INTS \cup SCAN_FLOATS)
         THEN LeaveNumber(scan_number(n1.s, n1.c, FALSE, TRUE))
         ELSE Tok(n1.s, c)
    ELSE Leave(n1, IF Has(n1.s.mode, SCAN_IDENTS) THEN IDENT ELSE c)

\* scan, third branch: the lookahead is '-'.
ScanMinus(s, c) == AfterMinus(next(s), c)

\* The '.' arm after its next(), n1.
AfterDot(n1, c) ==
    IF is_decimal(n1.c) /\ Has(n1.s.mode, SCAN_FLOATS)
    THEN LeaveNumber(scan_number(n1.s, n1.c, TRUE, FALSE))
    ELSE Leave(n1, c)

\* Arms that never join the scalar after '~' or '#' to it.
AfterSigilAlone(n1, c) == Leave(n1, c)

\* The '~' and '#' arms after their next(), n1: "~@" and "#{" are identifiers.
AfterSigil(n1, c) ==
    IF Has(n1.s.mode, SCAN_IDENTS)
       /\ n1.c = (IF c = Ord.tilde THEN Ord.at ELSE Ord.lbrace)
    THEN Leave(next(n1.s), IDENT)
    ELSE Leave(n1, c)

\* scan, the arms of the match that need no recursion.
ScanOther(s, c) ==
    IF c = Ord.quote
    THEN Leave(next(IF Has(s.mode, SCAN_STRINGS) THEN scan_string(s, Ord.quote) ELSE s),
               IF Has(s.mode, SCAN_STRINGS) THEN STRING_TOK ELSE c)
    ELSE IF c = Ord.colon
    THEN IF Has(s.mode, SCAN_KEYWORDS) THEN Leave(scan_identifier(s), KEYWORD)
         ELSE Leave(next(s), c)
    ELSE IF c = Ord.dot THEN AfterDot(next(s), c)
    ELSE IF c = Ord.not
    THEN IF Has(s.mode, SCAN_RAW_STRINGS) THEN Leave(scan_raw_string(s), RAW_STRING)
         ELSE Leave(next(s), c)
    ELSE IF c = Ord.tilde \/ c = Ord.hash THEN AfterSigil(next(s), c)
    ELSE IF c = Ord.eofch THEN Tok(s, c)
    ELSE Leave(next(s), c)

\* "End of token text" of scan.
EndToken(r) ==
    Tok([r.s EXCEPT !.tok_end = r.s.src_pos - r.s.last_char_len], r.tok)

RECURSIVE scan(_)

\* The ';' arm after its next(), n1.
AfterSemi(n1, c) ==
    IF Has(n1.s.mode, SCAN_COMMENTS)
    THEN IF Has(n1.s.mode, SKIP_COMMENTS)
         THEN scan(SetLook(scan_comment([n1.s EXCEPT !.tok_pos = -1], n1.c)))
         ELSE EndToken(Leave(scan_comment(n1.s, n1.c), COMMENT))
    ELSE EndToken(Leave(n1, c))

\* "Determine token value" of scan: s the scanner with the token marked, c
\* its first scalar.
Dispatch(s, c) ==
    IF is_ident_rune_check(s, c, 0) THEN EndToken(ScanIdentStart(s, c))
    ELSE IF is_decimal(c) THEN EndToken(ScanDecimal(s, c))
    ELSE IF c = Ord.minus THEN EndToken(ScanMinus(s, c))
    ELSE IF c = Ord.semi THEN AfterSemi(next(s), c)
    ELSE EndToken(ScanOther(s, c))

\* scan after "Skip white space", w.
Unspaced(w) ==
    IF w.eof THEN Tok(w.s, EOF) ELSE Dispatch(MarkToken(w.s), w.c)

\* scan after its peek(), s1.
ScanLook(s1) ==
    IF s1.ch = EOF \/ s1.ch = Ord.eofch THEN Tok(s1, EOF)
    ELSE Unspaced(SkipWhitespace([s1 EXCEPT !.tok_pos = -1, !.position.line = 0],
                                 s1.ch))

\* Scanner::scan: the scanner afterwards and the token returned.
scan(s0) == ScanLook(peek(s0))

---------------------------------------------------------------------------
(* The sources and the configurations a caller sets *)

\* The items sources are built of: the encodings of scalars, and stray bytes.
RECURSIVE Concat(_)
Concat(ss) == IF ss = <<>> THEN <<>> ELSE Head(ss) \o Concat(Tail(ss))

\* All sequences of at most n elements of S.
UpTo(S, n) == UNION {[1..k -> S] : k \in 0..n}

\* The sources of the main specification: a letter, a newline, a two-byte
\* letter, U+FFFF, and a byte that no UTF-8 sequence holds.
Items == {<<Ord.a>>, <<Ord.nl>>, Encode(233), Encode(Ord.eofch), <<255>>}

Sources == {Concat(q) : q \in UpTo(Items, MaxLen)}

\* Read sizes: a byte at a time, or as much as the buffer takes.
Chunks == {1, BUF_LEN}

Modes == {{}, LISP_TOKENS}

Whitespaces == {{}, LISP_WHITESPACE}

\* The sources of the token specification: the scalars that scan() dispatches
\* on and the ones number literals are made of.
ScanItems == {<<Ord.d0>>, <<Ord.x>>, <<Ord.minus>>, <<Ord.dot>>,
              <<Ord.quote>>, <<Ord.colon>>, <<Ord.semi>>, Encode(Ord.not),
              <<Ord.nl>>}

ScanSources == {Concat(q) : q \in UpTo(ScanItems, MaxLen)}

AllFlags == LISP_TOKENS \cup SCAN_INTS

\* The modes of the token specification: nothing, the default, and
\* everything but one flag.
ScanModes == {{}, LISP_TOKENS} \cup {AllFlags \ {f} : f \in AllFlags}

\* The sources of the comment specification, one item longer than the others.
CommentItems == {<<Ord.a>>, <<Ord.semi>>, <<Ord.nl>>, Encode(233)}

CommentSources == {Concat(q) : q \in UpTo(CommentItems, MaxLen + 1)}

\* The sources of the scalar specification: a letter, NUL, a blank and the
\* byte-order mark.
CharItems == {<<Ord.a>>, <<Ord.nul>>, <<Ord.sp>>, Encode(Ord.bom)}

CharSources == {Concat(q) : q \in UpTo(CharItems, MaxLen)}

\* Whitespace sets of the scalar specification: none, the default, the blank
\* alone, and NUL with the blank (bits 0 and 32).
CharWhitespaces == {{}, LISP_WHITESPACE, {Ord.sp}, {Ord.nul, Ord.sp}}

\* The sources of the literal specification.  Raw strings: the mark and a
\* letter, up to MaxLen + 2 scalars.
RawItems == {Encode(Ord.not), <<Ord.a>>}

RawSources == {Concat(q) : q \in UpTo(RawItems, MaxLen + 2)}

\* Number of hexadecimal digits the escape with letter l takes.
EscapeDigits(l) == IF l = Ord.x THEN 2 ELSE IF l = Ord.u THEN 4 ELSE 8

\* A closed string with one escape: letter l, k times the digit d, then fill.
Escaped(l, k, d, fill) ==
    <<Ord.quote, Ord.bslash, l>> \o [i \in 1..k |-> d] \o fill \o <<Ord.quote>>

EscapeSources ==
    {Escaped(l, k, d, fill) :
        l \in {Ord.x, Ord.u, Ord.U}, k \in 0..8, d \in {Ord.d0, Ord.F},
        fill \in {<<>>, <<Ord.z>>}}

\* Strings without escapes that no quote closes: cut by a newline or by the
\* end of the source.
OpenBodies == UpTo({Ord.a, Ord.sp, Ord.semi}, MaxLen)

OpenEnds == {<<>>, <<Ord.nl>>, <<Ord.nl, Ord.a>>}

OpenSources == {<<Ord.quote>> \o b \o e : b \in OpenBodies, e \in OpenEnds}

\* Digit strings of a base, of one digit up to MaxLen - 1.
DigitsIn(ds) == UpTo(ds, MaxLen - 1) \ {<<>>}

HexDigits == DigitsIn({Ord.d0, Ord.e, Ord.F})

OctalDigits == DigitsIn({Ord.d0, Ord.d0 + 7})

BinaryDigits == DigitsIn({Ord.d0, Ord.d0 + 1})

DecimalDigits == DigitsIn({Ord.d0, Ord.d9})

\* Base letters and exponent letters in both cases.
BothCases(c) == {c, c - 32}

\* Integer literals with a base prefix, and octal ones with a leading 0.
IntLiterals ==
    {<<Ord.d0, p>> \o ds : p \in BothCases(Ord.x), ds \in HexDigits}
    \cup {<<Ord.d0, p>> \o ds : p \in BothCases(Ord.o), ds \in OctalDigits}
    \cup {<<Ord.d0, p>> \o ds : p \in BothCases(Ord.b), ds \in BinaryDigits}
    \cup {<<Ord.d0>> \o ds : ds \in OctalDigits}

\* An exponent with digits: the letter, a sign or none, one decimal digit.
Exponents(letter) ==
    {<<l>> \o sign \o <<d>> :
        l \in BothCases(letter), sign \in {<<>>, <<Ord.minus>>, <<Ord.plus>>},
        d \in {Ord.d0, Ord.d9}}

\* Decimal literals with a radix point, with an exponent, or with both, and
\* hexadecimal literals with a binary exponent.
FloatLiterals ==
    {ds \o <<Ord.dot>> \o fs : ds \in DecimalDigits, fs \in DecimalDigits \cup {<<>>}}
    \cup {<<Ord.dot>> \o fs : fs \in DecimalDigits}
    \cup {ds \o ex : ds \in DecimalDigits, ex \in Exponents(Ord.e)}
    \cup {ds \o <<Ord.dot, Ord.d9>> \o ex : ds \in DecimalDigits, ex \in Exponents(Ord.e)}
    \cup {<<Ord.d0, p>> \o ds \o ex :
             p \in BothCases(Ord.x), ds \in HexDigits, ex \in Exponents(Ord.p)}

\* A literal alone, or with a newline behind it.
NumberSources ==
    {l \o e : l \in IntLiterals \cup FloatLiterals, e \in {<<>>, <<Ord.nl>>}}

LiteralSources == RawSources \cup EscapeSources \cup OpenSources \cup NumberSources

\* The modes of the literal specification: the default, every flag, and
\* strings alone and raw strings alone.
LiteralModes == {LISP_TOKENS, AllFlags, SCAN_STRINGS, SCAN_RAW_STRINGS}

\* The sources of the identifier specification: an ASCII letter, a
\* three-byte letter (U+4E2D), a digit, the hyphen, one of the special
\* identifier scalars, and the scalars of keywords and of "~@" and "#{".
IdentItems == {<<Ord.a>>, Encode(20013), <<Ord.d0>>, <<Ord.minus>>, <<Ord.star>>,
               <<Ord.colon>>, <<Ord.tilde>>, <<Ord.at>>, <<Ord.hash>>,
               <<Ord.lbrace>>}

IdentSources == {Concat(q) : q \in UpTo(IdentItems, MaxLen)}

\* The modes of the identifier specification: the default, identifiers
\* alone, keywords alone.
IdentModes == {LISP_TOKENS, SCAN_IDENTS, SCAN_KEYWORDS}

\* The sources of the number specification.  A sign or none.
Signs == {<<>>, <<Ord.minus>>}

\* k times the separator and the digit d.
SepGroups(d, k) == Concat([i \in 1..k |-> <<Ord.under, d>>])

\* The heads of literals, each with a digit of its base: decimal,
\* hexadecimal, binary, octal, and octal by a leading 0.
DigitHeads ==
    {[head |-> <<Ord.d0 + 1>>, digit |-> Ord.d9],
     [head |-> <<Ord.d0, Ord.x, Ord.d0 + 1>>, digit |-> Ord.f],
     [head |-> <<Ord.d0, Ord.b, Ord.d0 + 1>>, digit |-> Ord.d0],
     [head |-> <<Ord.d0, Ord.o, Ord.d0 + 1>>, digit |-> Ord.d0 + 7],
     [head |-> <<Ord.d0>>, digit |-> Ord.d0 + 7]}

\* Literals whose separators all stand between two digits of the base.
GoodSepLiterals ==
    {sg \o h.head \o SepGroups(h.digit, k) :
        sg \in Signs, h \in DigitHeads, k \in 1..(MaxLen - 1)}
    \cup {sg \o <<Ord.d0 + 1>> \o SepGroups(Ord.d0, k) \o tail :
             sg \in Signs, k \in 1..(MaxLen - 1),
             tail \in {<<Ord.dot, Ord.d9>>, <<Ord.dot, Ord.d9, Ord.under, Ord.d0>>,
                       <<Ord.e, Ord.d9, Ord.under, Ord.d0>>}}

\* Literals with a separator directly behind the base prefix.
PrefixSepLiterals ==
    {<<Ord.d0, p, Ord.under, Ord.d0 + 1>> : p \in {Ord.x, Ord.o, Ord.b}}

\* Literals with a separator that is doubled, in front of the radix point or
\* the exponent, behind them, or at the end.
BadSepLiterals ==
    {sg \o l : sg \in Signs,
               l \in {<<Ord.d0 + 1, Ord.under, Ord.under, Ord.d0>>,
                      <<Ord.d0, Ord.x, Ord.d0 + 1, Ord.under, Ord.under, Ord.f>>,
                      <<Ord.d0 + 1, Ord.under, Ord.dot, Ord.d9>>,
                      <<Ord.d0 + 1, Ord.under, Ord.e, Ord.d9>>,
                      <<Ord.d0 + 1, Ord.dot, Ord.under, Ord.d9>>,
                      <<Ord.d0 + 1, Ord.e, Ord.under, Ord.d9>>,
                      <<Ord.d0 + 1, Ord.under>>,
                      <<Ord.d0, Ord.x, Ord.d0 + 1, Ord.under>>,
                      <<Ord.d0 + 1, Ord.dot, Ord.d9, Ord.under>>}}

\* Base prefixes with nothing behind them.
BarePrefixes == {sg \o <<Ord.d0, p>> : sg \in Signs, p \in UNION {BothCases(l) : l \in {Ord.x, Ord.o, Ord.b}}}

\* Integer literals of base 2 and 8 that hold a decimal digit outside the
\* base.
WrongDigitLiterals ==
    UNION {{h.head \o ds :
              ds \in {q \in UpTo({Ord.d0, Ord.d0 + 1, Ord.d0 + 2, Ord.d0 + 8}, MaxLen) :
                         \E i \in 1..Len(q) : q[i] >= Ord.d0 + h.base}} :
           h \in {[head |-> <<Ord.d0, Ord.b>>, base |-> 2],
                  [head |-> <<Ord.d0, Ord.o>>, base |-> 8],
                  [head |-> <<Ord.d0>>, base |-> 8]}}

\* Float literals with a radix point in a binary or octal literal.
PointInBaseLiterals ==
    {<<Ord.d0, p, Ord.d0 + 1, Ord.dot>> \o fs :
        p \in {Ord.o, Ord.b}, fs \in {<<>>, <<Ord.d0>>}}

\* A decimal exponent behind a prefixed mantissa.
DecimalExponentLiterals(prefixes) ==
    {<<Ord.d0, p, Ord.d0 + 1, l, Ord.d0 + 1>> : p \in prefixes, l \in BothCases(Ord.e)}

\* A binary exponent behind a mantissa that is not hexadecimal.
BinaryExponentLiterals ==
    {m \o <<l, Ord.d0 + 1>> :
        m \in {<<Ord.d0 + 1>>, <<Ord.d0, Ord.d0 + 1>>, <<Ord.d0, Ord.b, Ord.d0 + 1>>,
               <<Ord.d0, Ord.o, Ord.d0 + 1>>, <<Ord.d0 + 1, Ord.dot, Ord.d9>>},
        l \in BothCases(Ord.p)}

\* An exponent letter with no digit behind it.
EmptyExponentLiterals ==
    {m \o sign : m \in {<<Ord.d0 + 1, Ord.e>>, <<Ord.d0 + 1, Ord.dot, Ord.d9, Ord.e - 32>>,
                         <<Ord.d0, Ord.x, Ord.d0 + 1, Ord.p>>},
                 sign \in {<<>>, <<Ord.plus>>, <<Ord.minus>>}}

\* A hexadecimal mantissa with a radix point and no exponent.
HexPointLiterals ==
    {<<Ord.d0, Ord.x>> \o l : l \in {<<Ord.d0 + 1, Ord.dot, Ord.d0 + 8>>,
                                     <<Ord.d0 + 1, Ord.dot>>, <<Ord.dot, Ord.d0 + 8>>}}

SeparatorSources ==
    {l \o e : l \in GoodSepLiterals \cup PrefixSepLiterals \cup BadSepLiterals
                    \cup BarePrefixes \cup WrongDigitLiterals
                    \cup PointInBaseLiterals
                    \cup DecimalExponentLiterals({Ord.x, Ord.o, Ord.b})
                    \cup BinaryExponentLiterals \cup EmptyExponentLiterals
                    \cup HexPointLiterals \cup {<<Ord.minus>>},
               e \in {<<>>, <<Ord.nl>>}}

\* A closed string with one octal escape: k times the digit d, then fill.
OctalEscaped(k, d, fill) ==
    <<Ord.quote, Ord.bslash>> \o [i \in 1..k |-> d] \o fill \o <<Ord.quote>>

\* The fills behind the digits of an octal escape: nothing, a letter, and a
\* decimal digit that is not octal.
OctalFills == {<<>>, <<Ord.z>>, <<Ord.d9>>}

\* The sources of the escape specification: escapes of 1 to MaxLen + 1 digits.
OctalSources ==
    {OctalEscaped(k, d, fill) :
        k \in 1..(MaxLen + 1), d \in {Ord.d0, Ord.d0 + 7}, fill \in OctalFills}

\* The sources of the read-error specification: the sources of the main
\* specification, each with a read that fails behind any number of its bytes.
FailingSources ==
    UNION {{FailingSource(data, chunk, fail) : chunk \in Chunks, fail \in 0..Len(data)} :
           data \in Sources}

\* The sources of the end-of-stream specification.
EndItems == {<<Ord.a>>, <<Ord.sp>>, <<Ord.nl>>, <<Ord.semi>>}

EndSources == {Concat(q) : q \in UpTo(EndItems, MaxLen)}

\* The sources of the line-comment specification: comments with letters of
\* one and three bytes and U+FFFF in them, and newlines.
LineItems == {<<Ord.a>>, <<Ord.semi>>, <<Ord.nl>>, Encode(20013), Encode(Ord.eofch)}

LineSources == {Concat(q) : q \in UpTo(LineItems, MaxLen + 1)}

\* The modes of the line-comment specification: comments returned, with and
\* without the other categories, and comments skipped.
LineModes == {LISP_TOKENS \ SKIP_COMMENTS, SCAN_COMMENTS, LISP_TOKENS}

\* The modes of the number specification: the default, every flag, and
\* integers alone.
NumberModes == {LISP_TOKENS, AllFlags, SCAN_INTS}

---------------------------------------------------------------------------
(* Actions: the public operations *)

\* A scanner just built on one of the sources, read in one of the sizes.
InitOn(srcs, chunks) ==
    /\ \E data \in srcs, chunk \in chunks : sc = init(Source(data, chunk))
    /\ ret = [op |-> "init", val |-> 0]
    /\ hist = <<>>

Init == InitOn(Sources, Chunks)

\* What a returned scan() leaves for the caller to read.
Entry(s, tok) ==
    [tok |-> tok, text |-> token_text(s), position |-> s.position, pos |-> pos(s)]

\* hist ends with the first EOF that scan() returned.
Ended == hist # <<>> /\ hist[Len(hist)].tok = EOF

\* scan() returned r.
Scanned(r) ==
    /\ sc' = r.s
    /\ ret' = [op |-> "scan", val |-> r.tok]
    /\ hist' = IF r.s.hung \/ Ended THEN hist ELSE Append(hist, Entry(r.s, r.tok))

Scan == ~sc.hung /\ Scanned(scan(sc))

Peek ==
    /\ ~sc.hung
    /\ sc' = peek(sc)
    /\ ret' = [op |-> "peek", val |-> sc'.ch]
    /\ UNCHANGED hist

\* next_char() returned r.
Read(r) ==
    /\ sc' = r.s
    /\ ret' = [op |-> "next_char", val |-> r.c]
    /\ UNCHANGED hist

NextChar == ~sc.hung /\ Read(next_char(sc))

\* The model configures a scanner before its first read.
Reconfigurable == ~sc.hung /\ sc.ch = -2

SetModeIn(modes) ==
    /\ Reconfigurable
    /\ \E m \in modes : sc' = [sc EXCEPT !.mode = m]
    /\ ret' = [op |-> "set_mode", val |-> 0]
    /\ UNCHANGED hist

SetMode == SetModeIn(Modes)

SetWhitespaceIn(sets) ==
    /\ Reconfigurable
    /\ \E w \in sets : sc' = [sc EXCEPT !.whitespace = w]
    /\ ret' = [op |-> "set_whitespace", val |-> 0]
    /\ UNCHANGED hist

SetWhitespace == SetWhitespaceIn(Whitespaces)

SetIsIdentRune ==
    /\ Reconfigurable
    /\ \E f \in Predicates : sc' = [sc EXCEPT !.is_ident_rune = f]
    /\ ret' = [op |-> "set_is_ident_rune", val |-> 0]
    /\ UNCHANGED hist

Next == Scan \/ Peek \/ NextChar \/ SetMode \/ SetWhitespace \/ SetIsIdentRune

\* The main specification: every public operation, on sources with
\* multi-byte scalars and stray bytes, read in chunks.
Spec == Init /\ [][Next]_vars

\* The token specification: scan() alone, under every mode of ScanModes, on
\* sources of the scalars scan() dispatches on.
InitScan == InitOn(ScanSources, {BUF_LEN})

SetScanMode == SetModeIn(ScanModes)

NextScan == Scan \/ SetScanMode \/ SetWhitespace

SpecScan == InitScan /\ [][NextScan]_vars

\* The comment specification: scan() alone, in the default configuration.
InitComments == InitOn(CommentSources, {BUF_LEN})

SpecComments == InitComments /\ [][Scan]_vars

\* The scalar specification: the cursor operations and scan() in the default
\* mode, on sources with NUL, blanks and byte-order marks, under the
\* whitespace sets of CharWhitespaces.
InitChars == InitOn(CharSources, Chunks)

SetCharWhitespace == SetWhitespaceIn(CharWhitespaces)

NextChars == NextChar \/ Peek \/ Scan \/ SetCharWhitespace

SpecChars == InitChars /\ [][NextChars]_vars

\* The literal specification: scan() on raw strings, strings with an escape,
\* unterminated strings and number literals, under the modes of LiteralModes.
InitLiterals == InitOn(LiteralSources, Chunks)

SetLiteralMode == SetModeIn(LiteralModes)

NextLiterals == Scan \/ SetLiteralMode

SpecLiterals == InitLiterals /\ [][NextLiterals]_vars

\* The identifier specification: scan() on identifiers, keywords and the
\* two-scalar identifiers, under the modes of IdentModes and every
\* identifier predicate.
InitIdents == InitOn(IdentSources, Chunks)

SetIdentMode == SetModeIn(IdentModes)

NextIdents == Scan \/ SetIdentMode \/ SetIsIdentRune

SpecIdents == InitIdents /\ [][NextIdents]_vars

\* The number specification: scan() on number literals with separators,
\* without digits, with digits outside their base, and with exponents and
\* radix points that do not go with their base.
InitNumbers == InitOn(SeparatorSources, Chunks)

SetNumberMode == SetModeIn(NumberModes)

NextNumbers == Scan \/ SetNumberMode

SpecNumbers == InitNumbers /\ [][NextNumbers]_vars

\* The line-comment specification: scan() on sources with comments, with
\* comments returned as tokens or skipped.
InitLines == InitOn(LineSources, Chunks)

SetLineMode == SetModeIn(LineModes)

NextLines == Scan \/ SetLineMode

SpecLines == InitLines /\ [][NextLines]_vars

\* The escape specification: scan() on strings with an octal escape, under
\* the modes of LiteralModes.
InitEscapes == InitOn(OctalSources, Chunks)

NextEscapes == Scan \/ SetLiteralMode

SpecEscapes == InitEscapes /\ [][NextEscapes]_vars

\* set_mode and set_whitespace called at any time, also between reads.
SetModeAnytime ==
    /\ ~sc.hung
    /\ \E m \in Modes : sc' = [sc EXCEPT !.mode = m]
    /\ ret' = [op |-> "set_mode", val |-> 0]
    /\ UNCHANGED hist

SetWhitespaceAnytime ==
    /\ ~sc.hung
    /\ \E w \in Whitespaces : sc' = [sc EXCEPT !.whitespace = w]
    /\ ret' = [op |-> "set_whitespace", val |-> 0]
    /\ UNCHANGED hist

\* The end-of-stream specification: every read operation, and the mode and
\* the whitespace set changed at any time, on sources of letters, blanks,
\* newlines and comments.
InitEnds == InitOn(EndSources, Chunks)

NextEnds == Scan \/ Peek \/ NextChar \/ SetModeAnytime \/ SetWhitespaceAnytime

SpecEnds == InitEnds /\ [][NextEnds]_vars

\* The read-error specification: scan() in the default configuration on
\* sources whose read fails.
InitFailing ==
    /\ \E src \in FailingSources : sc = init(src)
    /\ ret = [op |-> "init", val |-> 0]
    /\ hist = <<>>

SpecFailing == InitFailing /\ [][Scan]_vars

---------------------------------------------------------------------------
(* What the properties are stated with *)

\* The scalars that well-formed bytes bs encode from index i on, each with
\* the offset it starts at.
RECURSIVE ScalarsFrom(_, _)
ScalarsFrom(bs, i) ==
    IF i > Len(bs) THEN <<>>
    ELSE <<[c |-> DecodeAt(bs, i), off |-> i - 1]>>
         \o ScalarsFrom(bs, i + SeqWidth(bs, i))

Scalars(bs) == ScalarsFrom(bs, 1)

Chars(bs) == [k \in 1..Len(Scalars(bs)) |-> Scalars(bs)[k].c]

IsPrefix(p, q) == Len(p) <= Len(q) /\ SubSeq(q, 1, Len(p)) = p

\* The bytes the scanner was built on.
Data == sc.src.data

WellFormed == from_utf8_ok(Data)

Ascii == \A i \in 1..Len(Data) : Data[i] < 128

\* The last operation was a scan() that returned / returned a token.
Returned == ret.op = "scan" /\ ~sc.hung

Token == Returned /\ ret.val # EOF

\* The bytes of the source from offset a up to, not including, offset b.
Bytes(a, b) == SubSeq(Data, a + 1, b)

\* Number of newline scalars of the source that start before offset o.
NewlinesBefore(o) ==
    Cardinality({k \in 1..Len(Scalars(Data)) :
                    Scalars(Data)[k].off < o /\ Scalars(Data)[k].c = Ord.nl})

\* Number of scalars between the last newline before offset o and o, the
\* scalar at o counted.
ColumnAt(o) ==
    Cardinality({k \in 1..Len(Scalars(Data)) :
                    /\ Scalars(Data)[k].off <= o
                    /\ \A j \in 1..Len(Scalars(Data)) :
                          (Scalars(Data)[j].c = Ord.nl /\ Scalars(Data)[j].off < o)
                              => Scalars(Data)[j].off < Scalars(Data)[k].off})

---------------------------------------------------------------------------
(* Properties *)

\* C1: after a scan() that returns a token, token_text() is the bytes of the
\* source from position.offset up to the first byte of the lookahead scalar.
\* Stated for well-formed sources, where the text can be compared byte by byte.
C1_TextIsSourceBytes ==
    (Token /\ WellFormed) => token_text(sc) = Bytes(sc.position.offset, sc.look)

\* C2: on a well-formed source without NUL the scalars the scanner decodes are
\* the scalars of the source, however the reads split it, and error_count
\* stays 0.
C2_DecodesTheSource ==
    (WellFormed /\ Ord.nul \notin {Data[i] : i \in 1..Len(Data)})
        => sc.error_count = 0 /\ IsPrefix(sc.dec, Chars(Data))

\* C3: scan() returns EOF only when every byte of the source has been consumed.
C3_EofOnlyAtEnd ==
    (Returned /\ ret.val = EOF)
        => sc.src.off = Len(Data) /\ sc.src_pos = sc.src_end

\* C4: every scan() call returns, whatever the source, the mode, the
\* whitespace set and the identifier predicate.
C4_ScanReturns == ~sc.hung

\* C9: after a scan() that returns a token (source well-formed, no leading
\* BOM) position.line is 1 plus the number of newlines before the token's
\* first scalar and position.column is the 1-based index of that scalar within
\* its line, in scalars; a newline is reported on the line it ends.
C9_PositionCountsScalars ==
    (Token /\ WellFormed /\ IsPrefix(Encode(Ord.bom), Data) = FALSE)
        => /\ sc.position.line > 0
           /\ sc.position.line = 1 + NewlinesBefore(sc.tok_off)
           /\ sc.position.column = ColumnAt(sc.tok_off)

\* C10: after a scan() that returns a token, pos().offset is position.offset
\* plus the number of source bytes the token was read from.
C10_PosFollowsToken ==
    Token => pos(sc).offset = sc.position.offset + (sc.look - sc.tok_off)

\* A token of two bytes or more whose text was carried over a refill.
C10_Witness ==
    /\ Token
    /\ sc.tok_buf # <<>>
    /\ sc.look - sc.tok_off >= 2
    /\ sc.position.offset > 0

\* The tags of the token categories that a mode flag switches on.
Categories == {IDENT, INT, FLOAT, STRING_TOK, KEYWORD, RAW_STRING, COMMENT}

\* C5, as stated: scan() never returns the tag of a category whose mode flag
\* is off.
C5_FlagOffNeverReturned ==
    (Token /\ ret.val \in Categories) => Has(sc.mode, {-ret.val})

\* C5, amended: Int is never returned when recognize-ints and
\* recognize-floats are both off; the tag of every other category is never
\* returned when its own flag is off.
C5_FlagOffNeverReturnedAmended ==
    (Token /\ ret.val \in Categories)
        => IF ret.val = INT THEN Has(sc.mode, SCAN_INTS \cup SCAN_FLOATS)
           ELSE Has(sc.mode, {-ret.val})

\* scan() returned Int with recognize-ints off.
C5_Witness == Token /\ ret.val = INT /\ ~Has(sc.mode, SCAN_INTS)

\* C6: with mode 0 and no whitespace, the tokens are the scalars of the
\* source, in order, each with itself as text, and then EOF.  Stated for
\* ASCII sources.
C6_EveryScalarItsOwnToken ==
    (sc.mode = {} /\ sc.whitespace = {} /\ Ascii)
        => /\ Len(hist) <= Len(Data) + 1
           /\ \A k \in 1..Len(hist) :
                 IF k <= Len(Data)
                 THEN hist[k].tok = Data[k] /\ hist[k].text = <<Data[k]>>
                 ELSE hist[k].tok = EOF

\* C8: in the default mode a '-' before a decimal digit starts one Int or
\* Float whose text has the sign, a '-' before an identifier-start scalar
\* starts one Ident whose text has the hyphen, and any other '-' is the Ident
\* "-" with the scalar after it left for the next token.  Stated for the
\* first token of an ASCII source that starts with '-'.
C8_MinusSign ==
    (sc.mode = LISP_TOKENS /\ Ascii /\ hist # <<>>
     /\ IsPrefix(<<Ord.minus>>, Data))
        => LET after == IF Len(Data) >= 2 THEN Data[2] ELSE Ord.eofch
               t == hist[1]
           IN  IF is_decimal(after)
               THEN /\ t.tok \in {INT, FLOAT}
                    /\ IsPrefix(<<Ord.minus, after>>, t.text)
               ELSE IF is_ident_rune_default(after, 0)
               THEN /\ t.tok = IDENT
                    /\ IsPrefix(<<Ord.minus, after>>, t.text)
               ELSE /\ t.tok = IDENT
                    /\ t.text = <<Ord.minus>>
                    /\ t.pos.offset = 1

\* The (token, text) pairs of the scan() calls on scanner s up to the first
\* EOF, n calls at most.
RECURSIVE ScanAll(_, _)
ScanAll(s, n) ==
    LET r == scan(s)
    IN  IF n = 0 \/ r.s.hung \/ r.tok = EOF THEN <<>>
        ELSE <<[tok |-> r.tok, text |-> token_text(r.s)]>> \o ScanAll(r.s, n - 1)

\* bs from index i on without its line comments: a comment runs from ';' up
\* to the next newline or the end.
RECURSIVE StripFrom(_, _, _)
StripFrom(bs, i, in_comment) ==
    IF i > Len(bs) THEN <<>>
    ELSE IF bs[i] = Ord.nl THEN <<bs[i]>> \o StripFrom(bs, i + 1, FALSE)
    ELSE IF in_comment \/ bs[i] = Ord.semi THEN StripFrom(bs, i + 1, TRUE)
    ELSE <<bs[i]>> \o StripFrom(bs, i + 1, FALSE)

StripComments(bs) == StripFrom(bs, 1, FALSE)

\* C7: in the default mode scan() never returns Comment, and the (token,
\* text) pairs up to EOF are those of the source without its line comments.
C7_CommentsLeaveNoTrace ==
    /\ \A k \in 1..Len(hist) : hist[k].tok # COMMENT
    /\ (Ended /\ WellFormed)
          => [k \in 1..(Len(hist) - 1) |-> [tok |-> hist[k].tok, text |-> hist[k].text]]
             = ScanAll(init(Source(StripComments(Data), sc.src.chunk)), Len(Data))

\* C11: peek() does not consume.  A second peek() changes nothing and returns
\* the same value, the next next_char() returns that value, and a scan()
\* after the peek() returns the token and the text of a scan() without it.
C11_PeekDoesNotConsume ==
    ~sc.hung
        => /\ peek(peek(sc)) = peek(sc)
           /\ next_char(peek(sc)).c = peek(sc).ch
           /\ scan(peek(sc)).tok = scan(sc).tok
           /\ token_text(scan(peek(sc)).s) = token_text(scan(sc).s)

\* A peek() that returned a scalar from beyond the first byte of the source.
C11_Witness == ret.op = "peek" /\ ret.val = sc.ch /\ ret.val > 0 /\ sc.look > 0

\* The values n successive next_char() calls on scanner s return.
RECURSIVE ReadAll(_, _)

\* r the first of the n calls.
ReadNext(r, n) == <<r.c>> \o ReadAll(r.s, n - 1)

ReadAll(s, n) == IF n = 0 THEN <<>> ELSE ReadNext(next_char(s), n)

\* Scalars cs without a byte-order mark at their head.
DropBom(cs) == IF cs # <<>> /\ Head(cs) = Ord.bom THEN Tail(cs) ELSE cs

\* No operation has read from the scanner yet.
Fresh == sc.ch = -2 /\ ~sc.hung

\* C12: on a fresh scanner over a well-formed source the next_char() calls
\* return the scalars of the source, once each and in order, a leading
\* byte-order mark left out, and EOF from then on.
C12_NextCharReadsTheSource ==
    (Fresh /\ WellFormed)
        => ReadAll(sc, Len(DropBom(Chars(Data))) + 2)
           = DropBom(Chars(Data)) \o <<EOF, EOF>>

\* C13: only a byte-order mark that is the first scalar of the source is
\* discarded.  On a fresh scanner in the default mode, over a source of
\* letters and byte-order marks, scan() returns every byte-order mark but a
\* leading one as a token of its own, and a mark followed by letters alone
\* scans to the one Ident of the letters.
C13_BomOnlyAtStart ==
    (Fresh /\ sc.mode = LISP_TOKENS /\ WellFormed
     /\ \A j \in 1..Len(Chars(Data)) : Chars(Data)[j] \in {Ord.a, Ord.bom})
        => LET cs == Chars(Data)
               toks == ScanAll(sc, Len(Data))
           IN  /\ Cardinality({k \in 1..Len(toks) :
                                  /\ toks[k].tok = Ord.bom
                                  /\ toks[k].text = Encode(Ord.bom)})
                  = Cardinality({j \in 2..Len(cs) : cs[j] = Ord.bom})
               /\ (Len(cs) >= 2 /\ cs[1] = Ord.bom
                   /\ \A j \in 2..Len(cs) : cs[j] = Ord.a)
                      => toks = <<[tok |-> IDENT, text |-> Tail(cs)]>>

\* What decoding bytes bs from index i on yields when every byte that begins
\* no well-formed sequence becomes one U+FFFD: the scalars, each marked with
\* whether it stands for such a byte.
RECURSIVE ReplacedFrom(_, _)
ReplacedFrom(bs, i) ==
    IF i > Len(bs) THEN <<>>
    ELSE IF SeqWidth(bs, i) > 0
    THEN <<[c |-> DecodeAt(bs, i), bad |-> FALSE]>>
         \o ReplacedFrom(bs, i + SeqWidth(bs, i))
    ELSE <<[c |-> Ord.repl, bad |-> TRUE]>> \o ReplacedFrom(bs, i + 1)

Replaced(bs) == ReplacedFrom(bs, 1)

\* C17: on a source with ill-formed bytes (and without NUL) the scalars
\* decoded are the well-formed scalars of the source as themselves and one
\* U+FFFD for each byte that begins no well-formed sequence, in source order,
\* and error_count is the number of those bytes decoded so far.
C17_InvalidByteIsReplaced ==
    (~WellFormed /\ Ord.nul \notin {Data[i] : i \in 1..Len(Data)})
        => /\ Len(sc.dec) <= Len(Replaced(Data))
           /\ \A k \in 1..Len(sc.dec) : sc.dec[k] = Replaced(Data)[k].c
           /\ sc.error_count
              = Cardinality({k \in 1..Len(sc.dec) : Replaced(Data)[k].bad})

\* C18: every NUL decoded from the source is returned as the scalar 0 and
\* adds exactly one to error_count.  Stated for ASCII sources, where nothing
\* else raises an error: the scalars decoded are the bytes of the source, NUL
\* included, and error_count is the number of NULs decoded so far.
C18_NulIsAnError ==
    Ascii => /\ IsPrefix(sc.dec, Data)
             /\ sc.error_count
                = Cardinality({k \in 1..Len(sc.dec) : sc.dec[k] = Ord.nul})

\* next_char() returned a NUL, the second one decoded.
C18_Witness ==
    /\ Ascii
    /\ ret.op = "next_char"
    /\ ret.val = Ord.nul
    /\ sc.error_count = 2

\* C19, as stated: whatever the whitespace set, on a source of scalars of
\* that set alone the first scan() returns EOF and error_count stays 0.
C19_BlankSourceIsEof ==
    (/\ hist # <<>>
     /\ \A i \in 1..Len(Data) : Data[i] < 64 /\ Data[i] \in sc.whitespace)
        => hist[1].tok = EOF /\ sc.error_count = 0

\* C19, amended: whatever the whitespace set, on a source of scalars of that
\* set alone the first scan() returns EOF; error_count stays 0 when the set
\* does not hold NUL.
C19_BlankSourceIsEofAmended ==
    (/\ hist # <<>>
     /\ \A i \in 1..Len(Data) : Data[i] < 64 /\ Data[i] \in sc.whitespace)
        => /\ hist[1].tok = EOF
           /\ Ord.nul \notin sc.whitespace => sc.error_count = 0

\* scan() returned EOF on a source of two blanks or more, under a whitespace
\* set that is not the default.
C19_Witness ==
    /\ ret.op = "scan"
    /\ hist # <<>>
    /\ Len(Data) >= 2
    /\ sc.whitespace = {Ord.sp}
    /\ \A i \in 1..Len(Data) : Data[i] \in sc.whitespace

\* The index of the mark that closes the raw string opened before index i of
\* scalars cs, a doubled mark being content; 0 when nothing closes it.
RECURSIVE RawEndFrom(_, _)
RawEndFrom(cs, i) ==
    IF i > Len(cs) THEN 0
    ELSE IF cs[i] # Ord.not THEN RawEndFrom(cs, i + 1)
    ELSE IF i + 1 <= Len(cs) /\ cs[i + 1] = Ord.not THEN RawEndFrom(cs, i + 2)
    ELSE i

\* The bytes of the first n scalars of cs.
EncodeFirst(cs, n) == Concat([k \in 1..n |-> Encode(cs[k])])

\* C14: with raw strings enabled, a source that opens with a raw string that
\* is closed (by a mark that is not the first of a doubled one) makes the
\* first scan() return RawString with the whole literal, both marks and the
\* doubled marks of the body included, as its text.
C14_RawStringIsOneToken ==
    (/\ hist # <<>>
     /\ Has(sc.mode, SCAN_RAW_STRINGS)
     /\ WellFormed
     /\ IsPrefix(<<Ord.not>>, Chars(Data))
     /\ RawEndFrom(Chars(Data), 2) > 0)
        => /\ hist[1].tok = RAW_STRING
           /\ hist[1].text = EncodeFirst(Chars(Data), RawEndFrom(Chars(Data), 2))

\* C15: with strings enabled, a closed string with one \x, \u or \U escape
\* scans as one String token with the whole source as text, with one error
\* when the escape has fewer than 2, 4 or 8 hexadecimal digits and with none
\* when it has them all.
C15_ShortEscapeIsOneError ==
    \A l \in {Ord.x, Ord.u, Ord.U}, k \in 0..8, d \in {Ord.d0, Ord.F},
       fill \in {<<>>, <<Ord.z>>} :
        (hist # <<>> /\ Has(sc.mode, SCAN_STRINGS) /\ Data = Escaped(l, k, d, fill))
            => /\ hist[1].tok = STRING_TOK
               /\ hist[1].text = Data
               /\ sc.error_count = IF k < EscapeDigits(l) THEN 1 ELSE 0

\* scan() returned the string of a \u escape with three digits.
C15_Witness ==
    /\ ret.op = "scan"
    /\ hist # <<>>
    /\ Has(sc.mode, SCAN_STRINGS)
    /\ Data = Escaped(Ord.u, 3, Ord.F, <<Ord.z>>)
    /\ sc.error_count = 1

\* C16: with strings enabled, a string without escapes that a newline or the
\* end of the source cuts before a closing quote scans as a String token whose
\* text is the string up to that point (the newline may be part of it), with
\* exactly one error.
C16_OpenStringIsOneError ==
    \A b \in OpenBodies, e \in OpenEnds :
        (hist # <<>> /\ Has(sc.mode, SCAN_STRINGS) /\ Data = <<Ord.quote>> \o b \o e)
            => /\ hist[1].tok = STRING_TOK
               /\ IsPrefix(<<Ord.quote>> \o b, hist[1].text)
               /\ Len(hist[1].text) <= Len(b) + 2
               /\ sc.error_count = 1

\* scan() returned the string of a line that has no closing quote, and the
\* token after it.
C16_Witness ==
    /\ ret.op = "scan"
    /\ Len(hist) >= 2
    /\ Has(sc.mode, SCAN_STRINGS)
    /\ Data = <<Ord.quote, Ord.a, Ord.sp, Ord.nl, Ord.a>>
    /\ sc.error_count = 1

\* The source without the newline behind the literal.
Literal ==
    IF Data # <<>> /\ Data[Len(Data)] = Ord.nl
    THEN SubSeq(Data, 1, Len(Data) - 1) ELSE Data

\* C20: in the default mode an integer literal with a base prefix or a
\* leading 0 scans as one Int, and a decimal literal with a radix point or an
\* exponent with digits, or a hexadecimal one with a binary exponent with
\* digits, as one Float; the text is the whole literal and no error is raised.
C20_NumberLiterals ==
    (/\ hist # <<>>
     /\ sc.mode = LISP_TOKENS
     /\ Literal \in IntLiterals \cup FloatLiterals)
        => /\ hist[1].tok = IF Literal \in IntLiterals THEN INT ELSE FLOAT
           /\ hist[1].text = Literal
           /\ sc.error_count = 0

\* scan() returned the Float of a hexadecimal literal with an exponent, read
\* over a refill.
C20_Witness ==
    /\ ret.op = "scan"
    /\ hist # <<>>
    /\ sc.mode = LISP_TOKENS
    /\ Literal = <<Ord.d0, Ord.x, Ord.e, Ord.F, Ord.p, Ord.minus, Ord.d9>>
    /\ hist[1].tok = FLOAT

\* The state is the one init built: no operation has been applied.
Built == ret.op = "init"

\* C21, as stated: right after init the mode has all eight flags and the
\* whitespace set is tab, newline, carriage return and space.
C21_InitEnablesAll ==
    Built => /\ sc.mode = SCAN_IDENTS \cup SCAN_INTS \cup SCAN_FLOATS
                          \cup SCAN_STRINGS \cup SCAN_KEYWORDS
                          \cup SCAN_RAW_STRINGS \cup SCAN_COMMENTS
                          \cup SKIP_COMMENTS
             /\ sc.whitespace = {Ord.tab, Ord.nl, Ord.cr, Ord.sp}

\* C21, amended: right after init the mode has every flag but
\* recognize-ints, and the whitespace set is as stated.
C21_InitEnablesAllButInts ==
    Built => /\ sc.mode = SCAN_IDENTS \cup SCAN_FLOATS \cup SCAN_STRINGS
                          \cup SCAN_KEYWORDS \cup SCAN_RAW_STRINGS
                          \cup SCAN_COMMENTS \cup SKIP_COMMENTS
             /\ sc.whitespace = {Ord.tab, Ord.nl, Ord.cr, Ord.sp}

\* A scanner just built on a source that is not empty.
C21_Witness == Built /\ Data # <<>> /\ sc.ch = -2 /\ sc.src.off = 0

\* The scalars an identifier starts with and goes on with, as the
\* specification lists them.
IdentSpecials == {Ord.under, Ord.dollar, Ord.star, Ord.plus, Ord.slash,
                  Ord.quest, Ord.bang, Ord.lt, Ord.gt, Ord.eq}

IdentStart(c) == is_alphabetic(c) \/ c \in IdentSpecials

IdentPart(c) ==
    is_alphabetic(c) \/ is_numeric(c) \/ c = Ord.minus \/ c \in IdentSpecials

\* The index of the last scalar of the run of identifier scalars of cs that
\* goes on from index i; i - 1 when cs[i] is none.
RECURSIVE RunEnd(_, _)
RunEnd(cs, i) ==
    IF i <= Len(cs) /\ IdentPart(cs[i]) THEN RunEnd(cs, i + 1) ELSE i - 1

\* C22: with the default predicate and identifiers enabled, a well-formed
\* source that starts with an identifier-start scalar makes the first scan()
\* return Ident with the maximal run of identifier scalars as text; the text
\* of an Ident never starts with a decimal digit.
C22_IdentIsMaximalRun ==
    (hist # <<>> /\ WellFormed /\ sc.is_ident_rune = "None"
     /\ Has(sc.mode, SCAN_IDENTS))
        => /\ (Chars(Data) # <<>> /\ IdentStart(Chars(Data)[1]))
                 => /\ hist[1].tok = IDENT
                    /\ hist[1].text = EncodeFirst(Chars(Data), RunEnd(Chars(Data), 2))
           /\ \A k \in 1..Len(hist) :
                 (hist[k].tok = IDENT /\ hist[k].text # <<>>)
                     => ~is_decimal(hist[k].text[1])

\* C23: with keywords enabled and the default predicate, a well-formed source
\* that starts with ':' makes the first scan() return Keyword with the colon
\* and the maximal run of identifier scalars after it as text.
C23_KeywordIsColonAndRun ==
    (hist # <<>> /\ WellFormed /\ sc.is_ident_rune = "None"
     /\ Has(sc.mode, SCAN_KEYWORDS) /\ IsPrefix(<<Ord.colon>>, Data))
        => /\ hist[1].tok = KEYWORD
           /\ hist[1].text = EncodeFirst(Chars(Data), RunEnd(Chars(Data), 2))

\* C24: with identifiers enabled and the default predicate, "~@" and "#{"
\* at the head of the source scan as one Ident with the two scalars as text;
\* a '~' or '#' before anything else is a token of its own, and the next
\* token starts at the scalar after it.
C24_TwoScalarIdents ==
    (hist # <<>> /\ sc.is_ident_rune = "None" /\ Has(sc.mode, SCAN_IDENTS)
     /\ Data # <<>> /\ Data[1] \in {Ord.tilde, Ord.hash})
        => IF Len(Data) >= 2
              /\ Data[2] = (IF Data[1] = Ord.tilde THEN Ord.at ELSE Ord.lbrace)
           THEN /\ hist[1].tok = IDENT
                /\ hist[1].text = <<Data[1], Data[2]>>
                /\ hist[1].pos.offset = 2
           ELSE /\ hist[1].tok = Data[1]
                /\ hist[1].text = <<Data[1]>>
                /\ hist[1].pos.offset = 1
                /\ Len(hist) >= 2
                      => \/ hist[2].tok = EOF /\ Len(Data) = 1
                         \/ hist[2].tok # EOF /\ hist[2].position.offset = 1

\* scan() returned "#{" as an Ident, and the token after it.
C24_Witness ==
    /\ ret.op = "scan"
    /\ Len(hist) >= 2
    /\ sc.is_ident_rune = "None"
    /\ Has(sc.mode, SCAN_IDENTS)
    /\ IsPrefix(<<Ord.hash, Ord.lbrace, Ord.tilde>>, Data)
    /\ hist[1].tok = IDENT

\* scan() has just returned the first token of the source.
FirstScan == ret.op = "scan" /\ Len(hist) = 1

\* The first token is a number whose text is the whole literal.
WholeNumber == hist[1].tok \in {INT, FLOAT} /\ hist[1].text = Literal

\* C25: with floats enabled, a number literal whose separators all stand
\* between two digits of its base scans as one Int or Float with the whole
\* literal as its text, and no error is raised.
C25_GoodSeparatorsAreQuiet ==
    (/\ FirstScan
     /\ SCAN_FLOATS \subseteq sc.mode
     /\ Literal \in GoodSepLiterals)
        => WholeNumber /\ sc.error_count = 0

C27_BarePrefixIsAnError ==
    FirstScan
        => /\ Literal \in BarePrefixes => sc.error_count >= 1
           /\ Literal = <<Ord.minus>> => sc.error_count = 0

\* C28: a binary or octal integer literal with a decimal digit outside its
\* base raises the invalid-digit error, once, and scans as one Int with the
\* whole literal as its text.
C28_WrongDigitIsAnError ==
    (FirstScan /\ Literal \in WrongDigitLiterals)
        => /\ hist[1].tok = INT
           /\ hist[1].text = Literal
           /\ sc.error_count = 1

\* scan() returned the Int 0b102, read over refills, with one error.
C28_Witness ==
    /\ FirstScan
    /\ Literal = <<Ord.d0, Ord.b, Ord.d0 + 1, Ord.d0, Ord.d0 + 2>>
    /\ sc.src.chunk < Len(Literal)
    /\ hist[1].tok = INT
    /\ sc.error_count = 1

\* The float literals in error of C29 that have no 'e' behind a 0x mantissa.
BadFloatLiterals ==
    PointInBaseLiterals \cup DecimalExponentLiterals({Ord.o, Ord.b})
    \cup BinaryExponentLiterals \cup EmptyExponentLiterals \cup HexPointLiterals

\* C29, as stated: with floats enabled, a radix point in a 0o or 0b literal,
\* an 'e' exponent behind a 0x, 0o or 0b mantissa, a 'p' exponent behind a
\* mantissa that is not hexadecimal, an exponent letter without digits, and
\* a hexadecimal mantissa with a radix point and no exponent each raise an
\* error and scan as one Float with the whole literal as its text.
C29_BadFloatIsAnError ==
    (/\ FirstScan
     /\ SCAN_FLOATS \subseteq sc.mode
     /\ Literal \in BadFloatLiterals \cup DecimalExponentLiterals({Ord.x}))
        => /\ hist[1].tok = FLOAT
           /\ hist[1].text = Literal
           /\ sc.error_count >= 1

\* C29, amended: the same without the 'e' behind a 0x mantissa, which is a
\* hexadecimal digit: that literal scans as one Int without an error.
C29_BadFloatIsAnErrorButHexE ==
    (/\ FirstScan
     /\ SCAN_FLOATS \subseteq sc.mode
     /\ Literal \in BadFloatLiterals \cup DecimalExponentLiterals({Ord.x}))
        => /\ hist[1].text = Literal
           /\ Literal \in BadFloatLiterals
                => hist[1].tok = FLOAT /\ sc.error_count >= 1
           /\ Literal \in DecimalExponentLiterals({Ord.x})
                => hist[1].tok = INT /\ sc.error_count = 0

\* scan() returned the Float 0o1e1, read over refills, with one error.
C29_Witness ==
    /\ FirstScan
    /\ sc.mode = LISP_TOKENS
    /\ Literal = <<Ord.d0, Ord.o, Ord.d0 + 1, Ord.e, Ord.d0 + 1>>
    /\ sc.src.chunk < Len(Literal)
    /\ hist[1].tok = FLOAT
    /\ sc.error_count = 1

\* The source is a raw string that is not closed.
OpenRawString ==
    /\ IsPrefix(<<Ord.not>>, Chars(Data))
    /\ RawEndFrom(Chars(Data), 2) = 0

\* C30: with raw strings enabled, a source that is a raw string without its
\* closing mark makes the first scan() raise one error and return RawString
\* with the whole source as its text, and the scan() after it returns EOF.
C30_OpenRawStringThenEof ==
    (/\ ret.op = "scan"
     /\ hist # <<>>
     /\ Has(sc.mode, SCAN_RAW_STRINGS)
     /\ OpenRawString)
        => /\ hist[1].tok = RAW_STRING
           /\ hist[1].text = Data
           /\ Len(hist) = 1 => sc.error_count = 1
           /\ Len(hist) > 1 => hist[2].tok = EOF

\* Index of the first newline of bs at or behind index i, Len(bs) + 1 when
\* there is none.
RECURSIVE LineEnd(_, _)
LineEnd(bs, i) ==
    IF i > Len(bs) \/ bs[i] = Ord.nl THEN i ELSE LineEnd(bs, i + 1)

\* Comments are returned as tokens.
CommentsReturned == Has(sc.mode, SCAN_COMMENTS) /\ ~Has(sc.mode, SKIP_COMMENTS)

\* The token scan() has just returned.
LastToken == hist[Len(hist)]

\* C31: with comments returned, a token that starts at a ';' is a Comment,
\* and the text of a Comment runs from its ';' to just before the next
\* newline, or to the end of the source; that newline (or the end) is the
\* lookahead scan() leaves.
C31_CommentRunsToTheNewline ==
    (Returned /\ hist # <<>> /\ ~Ended /\ CommentsReturned)
        => LET from == LastToken.position.offset + 1
               to == LineEnd(Data, from)
           IN  /\ Data[from] = Ord.semi => LastToken.tok = COMMENT
               /\ LastToken.tok = COMMENT
                    => /\ Data[from] = Ord.semi
                       /\ LastToken.text = SubSeq(Data, from, to - 1)
                       /\ sc.ch = IF to <= Len(Data) THEN Ord.nl ELSE EOF

\* C32: with strings enabled, a closed string with one octal escape scans as
\* one String token with the whole source as its text; one error is raised
\* when the escape has one or two octal digits before a scalar that is not
\* one, and none when it has three, a fourth digit being plain content.
C32_OctalEscapeTakesThreeDigits ==
    \A k \in 1..(MaxLen + 1), d \in {Ord.d0, Ord.d0 + 7}, fill \in OctalFills :
        (FirstScan /\ Has(sc.mode, SCAN_STRINGS) /\ Data = OctalEscaped(k, d, fill))
            => /\ hist[1].tok = STRING_TOK
               /\ hist[1].text = Data
               /\ sc.error_count = IF k < 3 THEN 1 ELSE 0

\* scan() returned the string of an escape of two octal digits before a
\* decimal digit, with one error.
C32_Witness ==
    /\ FirstScan
    /\ Has(sc.mode, SCAN_STRINGS)
    /\ Data = OctalEscaped(2, Ord.d0 + 7, <<Ord.d9>>)
    /\ hist[1].tok = STRING_TOK
    /\ sc.error_count = 1

\* Number of source bytes consumed: the buffer offset plus the cursor.
Consumed(s) == s.src_buf_offset + s.src_pos

\* The tokens scan() returned start at strictly increasing offsets.
OffsetsIncrease ==
    \A i, j \in 1..Len(hist) :
        (i < j /\ hist[i].tok # EOF /\ hist[j].tok # EOF)
            => hist[i].position.offset < hist[j].position.offset

\* C33: no operation lowers the number of source bytes consumed, and the
\* tokens scan() returns before EOF start at strictly increasing offsets.
C33_ConsumedNeverDecreases ==
    /\ [][Consumed(sc') >= Consumed(sc)]_vars
    /\ []OffsetsIncrease

\* Two tokens were returned, the second after the buffer was refilled with
\* bytes discarded from its front.
C33_Witness ==
    /\ Len(hist) >= 2
    /\ hist[2].tok # EOF
    /\ sc.src_buf_offset > 0
    /\ hist[2].position.offset > hist[1].position.offset

\* C34: once scan() has returned EOF, every scan(), peek() and next_char()
\* returns EOF, whatever mode and whitespace set are set in between.
C34_EofIsFinal ==
    (Ended /\ ~sc.hung /\ ret.op \in {"scan", "peek", "next_char"})
        => ret.val = EOF

\* C35: when scan() returns EOF, token_text() is empty.
C35_EofHasNoText ==
    (Returned /\ ret.val = EOF) => token_text(sc) = <<>>

\* What the n-th scan() of scanner s returns (n >= 1).
RECURSIVE NthScan(_, _)
NthScan(s, n) == IF n = 1 THEN scan(s) ELSE NthScan(scan(s).s, n - 1)

\* A scanner on the bytes the source handed out before its read failed, with
\* a source that ends there.
OnDelivered == init(Source(SubSeq(Data, 1, sc.src.fail), sc.src.chunk))

\* The scanner s without the bytes its source holds back.
Delivered(s) == [s EXCEPT !.src = s.src.off]

\* scan() returned what r holds and left the scanner r holds.
SameAs(r) == ret.val = r.tok /\ Delivered(sc) = Delivered(r.s)

\* C36: on a source whose read fails, every scan() returns the token, and
\* leaves the scanner (text, positions, lookahead, error count) that a
\* scan() returns and leaves on a source that ends where the read failed;
\* up to the first EOF it is the scan() with the same number.
C36_ReadErrorIsEndOfStream ==
    (Returned /\ sc.src.fail >= 0)
        => /\ \E n \in 1..(Len(Data) + 3) : SameAs(NthScan(OnDelivered, n))
           /\ (hist # <<>> /\ ~Ended) => SameAs(NthScan(OnDelivered, Len(hist)))

\* scan() returned EOF after two tokens, on a source whose read failed
\* inside a two-byte scalar and with bytes left behind it.
C36_Witness ==
    /\ Ended
    /\ sc.src.off = sc.src.fail
    /\ Len(hist) = 3
    /\ sc.src.fail = 2
    /\ Data = <<Ord.a, 195, 169, Ord.a>>
    /\ hist[2].tok = Ord.repl
    /\ sc.error_count = 1

\* The cursor and the end of the window are inside the buffer and in order.
CursorInWindow ==
    /\ 0 <= sc.src_pos
    /\ sc.src_pos <= sc.src_end
    /\ sc.src_end <= BUF_LEN

\* The byte behind the window is the sentinel.
SentinelInPlace == sc.src_buf[sc.src_end] >= 128

\* No subtraction of offsets goes below zero, and no slice of the buffer
\* starts behind its end.
OffsetsInRange ==
    /\ sc.last_char_len <= sc.src_pos
    /\ sc.tok_pos >= -1
    /\ sc.tok_pos <= sc.src_pos
    /\ sc.tok_end >= 0
    /\ sc.tok_end <= BUF_LEN
    /\ pos(sc).offset >= 0
    /\ sc.position.offset >= 0

\* C37: between the public operations the cursor is inside the window, the
\* window inside the buffer, the byte at the end of the window is the
\* sentinel, and the width of the last scalar is at most the cursor, so
\* that no offset subtraction goes below zero.
C37_BufferInvariant ==
    ~sc.hung => CursorInWindow /\ SentinelInPlace /\ OffsetsInRange

\* The window was refilled up to the capacity of the buffer and read to its
\* end, the last scalar being a multi-byte one.
C37_Witness ==
    /\ ~sc.hung
    /\ sc.src_buf_offset > 0
    /\ sc.src_end = BUF_LEN
    /\ sc.src_pos = sc.src_end
    /\ sc.last_char_len > 1
====
